---- MODULE Spec2Model ----
(***************************************************************************)
(* Command tree, resolver (FindCmd) and completer (Do) of ishell.          *)
(*                                                                         *)
(* Go strings are modelled as sequences of byte values, Go maps as         *)
(* functions whose domain is the set of keys, *Cmd pointers as the names   *)
(* of the Cmd objects in Cmds.  A range loop over a Go map visits the      *)
(* entries in an unspecified order, so every operator that ranges over a   *)
(* map returns the SET of results the loop can produce.                    *)
(*                                                                         *)
(* Spec is the tree under AddCmd, AddOptionalCmd and DeleteCmd, with the   *)
(* log of the calls made (hist) and the last call's record (call).         *)
(* FindCmd and Do do not change the tree: SpecFind and SpecDo start from   *)
(* a tree built by a set-up script and apply the function once, to each    *)
(* input, recording the arguments and the result in call.                  *)
(***************************************************************************)
EXTENDS Integers, Sequences, FiniteSets, TLC

VARIABLES children, optionalChildren, hist, call

vars == <<children, optionalChildren, hist, call>>

\* Bounds of the model.
MaxOps == 3
MaxArgs == 3
MaxWords == 3

----------------------------------------------------------------------------
\* Strings (byte sequences).
sEmpty == <<>>
sSpace == <<32>>
sUser == <<117, 115, 101, 114>>
sU == <<117>>
sUsr == <<117, 115, 114>>
sVerbose == <<45, 45, 118, 101, 114, 98, 111, 115, 101>>
sV == <<45, 118>>
sMode == <<45, 45, 109, 111, 100, 101>>
sExtra == <<101, 120, 116, 114, 97>>
sSlow == <<115, 108, 111, 119>>
sSt == <<115, 116>>
sStatus == <<115, 116, 97, 116, 117, 115>>
sStop == <<115, 116, 111, 112>>
sStart == <<115, 116, 97, 114, 116>>

Max(S) == CHOOSE x \in S : \A y \in S : y <= x
Min(S) == CHOOSE x \in S : \A y \in S : x <= y
Range(f) == {f[x] : x \in DOMAIN f}

\* All enumerations of a finite set: the orders in which a range loop over a
\* map with these keys can visit them.
Perms(S) == {p \in [1..Cardinality(S) -> S] : \A i, j \in DOMAIN p : p[i] = p[j] => i = j}

----------------------------------------------------------------------------
\* The Cmd objects the shell author has constructed.  Nil is the nil *Cmd.
Nil == "nil"
Root == "root"
User == "user"
CmdU == "u"
User2 == "user2"
Verbose == "verbose"
Mode == "mode"

Cmds == {Root, User, CmdU, User2, Verbose, Mode}

\* Cmd.Name
Name(c) ==
  CASE c = Root -> sEmpty
    [] c = User -> sUser
    [] c = CmdU -> sU
    [] c = User2 -> sUser
    [] c = Verbose -> sVerbose
    [] c = Mode -> sMode

\* Cmd.Aliases
Aliases(c) ==
  CASE c = User -> <<sU, sUsr>>
    [] c = CmdU -> <<sUsr>>
    [] c = Verbose -> <<sV>>
    [] c = Mode -> <<sV>>
    [] OTHER -> <<>>

\* Cmd.Completer: whether the field is non-nil, and what the function returns.
HasCompleter(c) == c \in {User, User2, Mode}

CompleterOut(c) ==
  CASE c = User -> <<sStop>>
    [] c = User2 -> <<sStatus, sStop, sUser, sStart>>
    [] c = Mode -> <<sStatus, sSlow>>
    [] OTHER -> <<>>

\* Cmd.CompleterWithPrefix: whether the field is non-nil, and what it returns.
HasCompleterWithPrefix(c) == c = User

CompleterWithPrefixOut(c) ==
  CASE c = User -> <<sStatus>>
    [] OTHER -> <<>>

----------------------------------------------------------------------------
\* Go map operations.
EmptyMap == [k \in {} |-> Nil]

MapPut(m, k, v) == [x \in (DOMAIN m) \cup {k} |-> IF x = k THEN v ELSE m[x]]

MapDelete(m, k) == [x \in (DOMAIN m) \ {k} |-> m[x]]

----------------------------------------------------------------------------
\* Tree management.

\* The calls the shell author makes: receivers and arguments.
Parents == {Root, User}
DeleteNames == {sUser, sU}

\* The effect of c.AddCmd(cmd) on the children maps ch (one map per Cmd).
AddCmdBody(ch, c, cmd) == [ch EXCEPT ![c] = MapPut(@, Name(cmd), cmd)]

\* The effect of c.AddOptionalCmd(cmd) on the optionalChildren maps och.
AddOptionalCmdBody(och, c, cmd) == [och EXCEPT ![c] = MapPut(@, Name(cmd), cmd)]

\* A DeleteCmd that also removes the entries carrying name as an alias.
DeleteCmdByAlias(ch, c, name) ==
  [ch EXCEPT ![c] = [x \in {k \in DOMAIN @ : k # name /\ name \notin Range(Aliases(@[k]))} |-> @[x]]]

\* The effect of c.DeleteCmd(name) on the children maps ch.
DeleteCmdBody(ch, c, name) == [ch EXCEPT ![c] = MapDelete(@, name)]

AddCmd(c, cmd) ==
  /\ Len(hist) < MaxOps
  /\ children' = AddCmdBody(children, c, cmd)
  /\ hist' = Append(hist, [op |-> "AddCmd", recv |-> c, cmd |-> cmd])
  /\ call' = [op |-> "AddCmd"]
  /\ UNCHANGED optionalChildren

AddOptionalCmd(c, cmd) ==
  /\ Len(hist) < MaxOps
  /\ optionalChildren' = AddOptionalCmdBody(optionalChildren, c, cmd)
  /\ hist' = Append(hist, [op |-> "AddOptionalCmd", recv |-> c, cmd |-> cmd])
  /\ call' = [op |-> "AddOptionalCmd"]
  /\ UNCHANGED children

DeleteCmd(c, name) ==
  /\ Len(hist) < MaxOps
  /\ children' = DeleteCmdBody(children, c, name)
  /\ hist' = Append(hist, [op |-> "DeleteCmd", recv |-> c, name |-> name])
  /\ call' = [op |-> "DeleteCmd"]
  /\ UNCHANGED optionalChildren

----------------------------------------------------------------------------
\* Children() and OptionalChildren(): collect the map's values in the order
\* the range loop visits them, then sort.Sort(cmdSorter(cmds)).

\* Go's < on strings: bytewise lexicographic order.
RECURSIVE StrLessFrom(_, _, _)
StrLessFrom(a, b, i) ==
  IF i > Len(a) THEN i <= Len(b)
  ELSE IF i > Len(b) THEN FALSE
  ELSE IF a[i] < b[i] THEN TRUE
  ELSE IF a[i] > b[i] THEN FALSE
  ELSE StrLessFrom(a, b, i + 1)

StrLess(a, b) == StrLessFrom(a, b, 1)

\* A Less with the comparison turned around.
cmdSorterGreater(c, i, j) == StrLess(Name(c[j]), Name(c[i]))

cmdSorterLess(c, i, j) == StrLess(Name(c[i]), Name(c[j]))

cmdSorterSwap(c, i, j) == [c EXCEPT ![i] = c[j], ![j] = c[i]]

\* sort.Sort on a short slice is an insertion sort over Less and Swap.
RECURSIVE InsertDown(_, _)
InsertDown(c, j) ==
  IF j > 1 /\ cmdSorterLess(c, j, j - 1)
  THEN InsertDown(cmdSorterSwap(c, j, j - 1), j - 1)
  ELSE c

RECURSIVE SortFrom(_, _)
SortFrom(c, i) == IF i > Len(c) THEN c ELSE SortFrom(InsertDown(c, i), i + 1)

SortCmds(c) == SortFrom(c, 2)

\* The slices a range loop over map m can build by appending each value.
RangeValues(m) == {[i \in 1..Len(p) |-> m[p[i]]] : p \in Perms(DOMAIN m)}

Children(c) == {SortCmds(cmds) : cmds \in RangeValues(children[c])}

OptionalChildren(c) == {SortCmds(cmds) : cmds \in RangeValues(optionalChildren[c])}

ChildrenCall(c) ==
  /\ \E ret \in Children(c) : call' = [op |-> "Children", recv |-> c, ret |-> ret]
  /\ UNCHANGED <<children, optionalChildren, hist>>

OptionalChildrenCall(c) ==
  /\ \E ret \in OptionalChildren(c) :
        call' = [op |-> "OptionalChildren", recv |-> c, ret |-> ret]
  /\ UNCHANGED <<children, optionalChildren, hist>>

----------------------------------------------------------------------------
\* The tree of a freshly constructed shell: no Cmd has children.
NoChildren == [c \in Cmds |-> EmptyMap]

Init ==
  /\ children = NoChildren
  /\ optionalChildren = NoChildren
  /\ hist = <<>>
  /\ call = [op |-> "none"]

Next ==
  \/ \E c \in Parents, cmd \in Cmds \ {Root} : cmd # c /\ AddCmd(c, cmd)
  \/ \E c \in Parents, cmd \in {Verbose, Mode} : AddOptionalCmd(c, cmd)
  \/ \E c \in Parents, name \in DeleteNames : DeleteCmd(c, name)
  \/ \E c \in Parents : ChildrenCall(c)
  \/ \E c \in Parents : OptionalChildrenCall(c)

Spec == Init /\ [][Next]_vars

----------------------------------------------------------------------------
\* Resolver.

\* A loop over cmd.Aliases that looks at the first alias only.
HasAliasFirstOnly(cmd, name) == Len(Aliases(cmd)) >= 1 /\ Aliases(cmd)[1] = name

\* The loop over cmd.Aliases of findChildCmd and findOptionalChildCmd.
HasAlias(cmd, name) == \E i \in 1..Len(Aliases(cmd)) : Aliases(cmd)[i] = name

\* The lookup both find*ChildCmd methods make in map m: the exact key first,
\* else the first entry the range loop visits that carries the alias, else nil.
findIn(m, name) ==
  IF name \in DOMAIN m THEN {m[name]}
  ELSE LET hit == {cmd \in Range(m) : HasAlias(cmd, name)}
       IN IF hit = {} THEN {Nil} ELSE hit

findChildCmd(c, name) == findIn(children[c], name)

findOptionalChildCmd(c, name) == findIn(optionalChildren[c], name)

\* args[i:] of Go: the slice that still holds the matched word.
ArgsFrom(args, i) == SubSeq(args, i, Len(args))

\* args[i+1:] of Go, for the 1-based index i of the matched word.
ArgsAfter(args, i) == SubSeq(args, i + 1, Len(args))

\* The first loop of FindCmd from word i on: c is the receiver copy, cmd the
\* last match, remArgs the slice kept at the last match.
RECURSIVE ReqScan(_, _, _, _, _)
ReqScan(c, cmd, remArgs, args, i) ==
  IF i > Len(args) THEN {[c |-> c, cmd |-> cmd, remArgs |-> remArgs]}
  ELSE UNION {IF cmd1 # Nil
              THEN ReqScan(cmd1, cmd1, ArgsAfter(args, i), args, i + 1)
              ELSE ReqScan(c, cmd, remArgs, args, i + 1)
              : cmd1 \in findChildCmd(c, args[i])}

\* An optional command opened without clearing the pending value.
KeepOptArgs(optArgs) == optArgs

\* optArgs = "" when an optional command is opened.
ResetOptArgs(optArgs) == sEmpty

\* The second loop of FindCmd from word j of remArgs on, and the final store.
RECURSIVE OptScan(_, _, _, _, _, _)
OptScan(c, remArgs, j, optCmd, optCmdMap, optArgs) ==
  IF j > Len(remArgs)
  THEN {IF optCmd # Nil THEN MapPut(optCmdMap, optCmd, optArgs) ELSE optCmdMap}
  ELSE UNION {IF cmd1 # Nil
              THEN OptScan(c, remArgs, j + 1, cmd1,
                           IF optCmd # Nil THEN MapPut(optCmdMap, optCmd, optArgs)
                                           ELSE optCmdMap,
                           ResetOptArgs(optArgs))
              ELSE OptScan(c, remArgs, j + 1, optCmd, optCmdMap, remArgs[j])
              : cmd1 \in findOptionalChildCmd(c, remArgs[j])}

\* A FindCmd whose remaining args start as the whole word list.
FindCmdAllRemaining(c, args) ==
  UNION {{[cmd |-> r.cmd, optCmdMap |-> m, remArgs |-> r.remArgs]
          : m \in OptScan(r.c, r.remArgs, 1, Nil, EmptyMap, sEmpty)}
         : r \in ReqScan(c, Nil, args, args, 1)}

\* Every (cmd, optCmdMap, remArgs) that c.FindCmd(args) can return.
FindCmd(c, args) ==
  UNION {{[cmd |-> r.cmd, optCmdMap |-> m, remArgs |-> r.remArgs]
          : m \in OptScan(r.c, r.remArgs, 1, Nil, EmptyMap, sEmpty)}
         : r \in ReqScan(c, Nil, <<>>, args, 1)}

\* The word sequences FindCmd is called with.
Tokens == {sUser, sU, sUsr, sVerbose, sV, sMode, sExtra}
Args == UNION {[1..n -> Tokens] : n \in 0..MaxArgs}

\* One call of root.FindCmd(args) on the tree as built.
FindCmdCall(args) ==
  /\ call.op = "none"
  /\ \E r \in FindCmd(Root, args) :
        call' = [op |-> "FindCmd", args |-> args, cmd |-> r.cmd,
                 optCmdMap |-> r.optCmdMap, remArgs |-> r.remArgs]
  /\ UNCHANGED <<children, optionalChildren, hist>>

----------------------------------------------------------------------------
\* The trees the resolver and the completer are called on: the shell author
\* has run a set-up script, a subsequence of SetupCalls in which at most one
\* of the two Cmds named "user" is added to the root.
SetupCalls ==
  << [op |-> "AddCmd", recv |-> Root, cmd |-> User],
     [op |-> "AddCmd", recv |-> Root, cmd |-> User2],
     [op |-> "AddCmd", recv |-> Root, cmd |-> CmdU],
     [op |-> "AddCmd", recv |-> User, cmd |-> CmdU],
     [op |-> "AddOptionalCmd", recv |-> Root, cmd |-> Verbose],
     [op |-> "AddOptionalCmd", recv |-> User, cmd |-> Verbose],
     [op |-> "AddOptionalCmd", recv |-> User, cmd |-> Mode] >>

\* The calls of SetupCalls at the indices I, in order.
RECURSIVE Pick(_, _)
Pick(I, from) ==
  IF from > Len(SetupCalls) THEN <<>>
  ELSE (IF from \in I THEN <<SetupCalls[from]>> ELSE <<>>) \o Pick(I, from + 1)

SetupScripts == {Pick(I, 1) : I \in {J \in SUBSET (1..Len(SetupCalls)) : ~({1, 2} \subseteq J)}}

\* The children maps after the AddCmd calls of script h, from call i on.
RECURSIVE RunChildren(_, _, _)
RunChildren(ch, h, i) ==
  IF i > Len(h) THEN ch
  ELSE RunChildren(IF h[i].op = "AddCmd" THEN AddCmdBody(ch, h[i].recv, h[i].cmd) ELSE ch,
                   h, i + 1)

\* The optionalChildren maps after the AddOptionalCmd calls of script h.
RECURSIVE RunOptional(_, _, _)
RunOptional(och, h, i) ==
  IF i > Len(h) THEN och
  ELSE RunOptional(IF h[i].op = "AddOptionalCmd"
                   THEN AddOptionalCmdBody(och, h[i].recv, h[i].cmd) ELSE och,
                   h, i + 1)

InitBuilt ==
  /\ hist \in SetupScripts
  /\ children = RunChildren(NoChildren, hist, 1)
  /\ optionalChildren = RunOptional(NoChildren, hist, 1)
  /\ call = [op |-> "none"]

NextFind == \E args \in Args : FindCmdCall(args)

SpecFind == InitBuilt /\ [][NextFind]_vars

----------------------------------------------------------------------------
\* Completer.

\* One call of a Cmd's completion function, as the completer makes it.
CompleterCall(c, args) == [fn |-> "Completer", cmd |-> c, prefix |-> sEmpty, args |-> args]

CompleterWithPrefixCall(c, prefix, args) ==
  [fn |-> "CompleterWithPrefix", cmd |-> c, prefix |-> prefix, args |-> args]

\* c.IsValid(argValue): the boolean, whether an error is returned, and the
\* call of c.Completer(nil) it makes.
IsValid(c, argValue) ==
  IF ~HasCompleter(c) THEN [valid |-> FALSE, err |-> TRUE, calls |-> <<>>]
  ELSE [valid |-> argValue \in Range(CompleterOut(c)), err |-> FALSE,
        calls |-> <<CompleterCall(c, <<>>)>>]

\* The tail of getWords with the two completer fields tested in the other order.
GetWordsTailCompleterFirst(f, prefix, w, s, calls) ==
  LET cmd == IF f.cmd = Nil THEN Root ELSE f.cmd
      args == IF f.cmd = Nil THEN w ELSE f.remArgs
  IN IF HasCompleter(cmd)
     THEN {[s |-> CompleterOut(cmd), calls |-> Append(calls, CompleterCall(cmd, args))]}
     ELSE IF HasCompleterWithPrefix(cmd)
     THEN {[s |-> CompleterWithPrefixOut(cmd),
            calls |-> Append(calls, CompleterWithPrefixCall(cmd, prefix, args))]}
     ELSE {[s |-> s \o p1 \o p2, calls |-> calls]
           : p1 \in Perms(DOMAIN children[cmd]), p2 \in Perms(DOMAIN optionalChildren[cmd])}

\* getWords after the loop over optCmdValueMap: the effective command, its
\* completers in order, else the names of its children and optional children.
GetWordsTail(f, prefix, w, s, calls) ==
  LET cmd == IF f.cmd = Nil THEN Root ELSE f.cmd
      args == IF f.cmd = Nil THEN w ELSE f.remArgs
  IN IF HasCompleterWithPrefix(cmd)
     THEN {[s |-> CompleterWithPrefixOut(cmd),
            calls |-> Append(calls, CompleterWithPrefixCall(cmd, prefix, args))]}
     ELSE IF HasCompleter(cmd)
     THEN {[s |-> CompleterOut(cmd), calls |-> Append(calls, CompleterCall(cmd, args))]}
     ELSE {[s |-> s \o p1 \o p2, calls |-> calls]
           : p1 \in Perms(DOMAIN children[cmd]), p2 \in Perms(DOMAIN optionalChildren[cmd])}

\* The loop of getWords over optCmdValueMap, with the keys in todo still to
\* be visited, s built and calls made so far.
RECURSIVE GetWordsOptLoop(_, _, _, _, _, _)
GetWordsOptLoop(f, prefix, w, todo, s, calls) ==
  IF todo = {} THEN GetWordsTail(f, prefix, w, s, calls)
  ELSE UNION {
    LET value == f.optCmdMap[optCmd]
        iv == IsValid(optCmd, value)
        calls1 == calls \o iv.calls
    IN IF iv.valid THEN GetWordsOptLoop(f, prefix, w, todo \ {optCmd}, s, calls1)
       ELSE IF HasCompleterWithPrefix(optCmd)
       THEN {[s |-> CompleterWithPrefixOut(optCmd),
              calls |-> Append(calls1, CompleterWithPrefixCall(optCmd, prefix, <<value>>))]}
       ELSE IF HasCompleter(optCmd)
       THEN {[s |-> CompleterOut(optCmd),
              calls |-> Append(calls1, CompleterCall(optCmd, <<value>>))]}
       ELSE IF DOMAIN children[optCmd] # {}
       THEN {[s |-> Append(s, k), calls |-> calls1] : k \in DOMAIN children[optCmd]}
       ELSE UNION {GetWordsOptLoop(f, prefix, w, todo \ {optCmd}, s \o p, calls1)
                   : p \in Perms(DOMAIN optionalChildren[f.cmd])}
    : optCmd \in todo}

\* Every result of ic.getWords(prefix, w), with the FindCmd result it rests on
\* and the completer calls it made.
getWords(prefix, w) ==
  UNION {{[s |-> g.s, calls |-> g.calls, found |-> f]
          : g \in GetWordsOptLoop(f, prefix, w, DOMAIN f.optCmdMap, <<>>, <<>>)}
         : f \in FindCmd(Root, w)}

\* The words of a line: shlex.Split, which on a line of plain words separated
\* by spaces gives what strings.Fields gives.
RECURSIVE FieldsFrom(_, _, _, _)
FieldsFrom(line, i, cur, acc) ==
  IF i > Len(line) THEN (IF cur = <<>> THEN acc ELSE Append(acc, cur))
  ELSE IF line[i] = 32
  THEN FieldsFrom(line, i + 1, <<>>, IF cur = <<>> THEN acc ELSE Append(acc, cur))
  ELSE FieldsFrom(line, i + 1, Append(cur, line[i]), acc)

Fields(line) == FieldsFrom(line, 1, <<>>, <<>>)

\* A prefix test that compares the lengths only.
HasPrefixByLength(s, prefix) == Len(s) >= Len(prefix)

\* strings.HasPrefix
HasPrefix(s, prefix) == Len(s) >= Len(prefix) /\ SubSeq(s, 1, Len(prefix)) = prefix

\* strings.TrimPrefix
TrimPrefix(s, prefix) ==
  IF Len(s) >= Len(prefix) /\ SubSeq(s, 1, Len(prefix)) = prefix
  THEN SubSeq(s, Len(prefix) + 1, Len(s))
  ELSE s

\* The loop of Do over cWords from word i on.
RECURSIVE FilterFrom(_, _, _, _)
FilterFrom(cWords, prefix, i, suggestions) ==
  IF i > Len(cWords) THEN suggestions
  ELSE FilterFrom(cWords, prefix, i + 1,
                  IF HasPrefix(cWords[i], prefix)
                  THEN Append(suggestions, TrimPrefix(cWords[i], prefix))
                  ELSE suggestions)

\* A replacement that does not look at what the single suggestion is.
CollapseAnySingle(suggestions, prefix) ==
  IF Len(suggestions) = 1 /\ prefix # sEmpty THEN <<sSpace>> ELSE suggestions

\* The replacement of a single empty suggestion by " ".
Collapse(suggestions, prefix) ==
  IF Len(suggestions) = 1 /\ prefix # sEmpty /\ suggestions[1] = sEmpty
  THEN <<sSpace>>
  ELSE suggestions

\* What getWords found when it was not called.
NotFound == [cmd |-> Nil, optCmdMap |-> EmptyMap, remArgs |-> <<>>]

\* Every result of ic.Do(line, pos), disabled being what ic.disabled()
\* returns (FALSE also when the field is nil): newLine and length, with the
\* values of the local variables.
Do(line, pos, disabled) ==
  IF disabled
  THEN {[suggestions |-> <<>>, length |-> Len(line), prefix |-> sEmpty, w |-> <<>>,
         cWords |-> <<>>, calls |-> <<>>, found |-> NotFound]}
  ELSE LET words == Fields(line)
           inWord == Len(words) > 0 /\ pos > 0 /\ line[pos] # 32
           prefix == IF inWord THEN words[Len(words)] ELSE sEmpty
           w == IF inWord THEN SubSeq(words, 1, Len(words) - 1) ELSE words
       IN {[suggestions |-> Collapse(FilterFrom(g.s, prefix, 1, <<>>), prefix),
            length |-> Len(prefix), prefix |-> prefix, w |-> w,
            cWords |-> g.s, calls |-> g.calls, found |-> g.found]
           : g \in getWords(prefix, w)}

\* The lines Do is called with: words joined by one space, with or without a
\* space after the last word.
DoTokens == {sUser, sMode, sSt, sStatus}
DoWords == UNION {[1..n -> DoTokens] : n \in 0..MaxWords}

RECURSIVE Join(_, _)
Join(ws, i) ==
  IF i > Len(ws) THEN <<>>
  ELSE ws[i] \o (IF i < Len(ws) THEN sSpace ELSE <<>>) \o Join(ws, i + 1)

Lines == {Join(ws, 1) : ws \in DoWords} \cup {Join(ws, 1) \o sSpace : ws \in DoWords}

\* One call of ic.Do(line, pos) on the tree as built.
DoCall(line, pos, disabled) ==
  /\ call.op = "none"
  /\ \E r \in Do(line, pos, disabled) :
        call' = [op |-> "Do", line |-> line, pos |-> pos, disabled |-> disabled,
                 suggestions |-> r.suggestions, length |-> r.length,
                 prefix |-> r.prefix, w |-> r.w, cWords |-> r.cWords,
                 calls |-> r.calls, found |-> r.found]
  /\ UNCHANGED <<children, optionalChildren, hist>>

NextDo == \E line \in Lines, disabled \in BOOLEAN : \E pos \in {0, Len(line)} : DoCall(line, pos, disabled)

SpecDo == InitBuilt /\ [][NextDo]_vars

----------------------------------------------------------------------------
\* Vocabulary of the properties.

\* The result of the FindCmd call recorded in call.
FindResult == [cmd |-> call.cmd, optCmdMap |-> call.optCmdMap, remArgs |-> call.remArgs]

\* The entries of map m a word resolves to: by name, else by alias.
Matches(m, w) ==
  LET byName == {c \in Range(m) : Name(c) = w}
      byAlias == {c \in Range(m) : w \in Range(Aliases(c))}
  IN IF byName # {} THEN byName ELSE byAlias

\* a is before b in the lexicographic order of byte strings.
LexLess(a, b) ==
  \E k \in 1..Len(b) :
     /\ \A i \in 1..(k - 1) : i <= Len(a) /\ a[i] = b[i]
     /\ k > Len(a) \/ a[k] < b[k]

AllNames == {Name(c) : c \in Cmds} \cup DeleteNames

\* The calls of hist that added a Cmd named n with method op to receiver c.
AddsOf(op, c, n) ==
  {i \in 1..Len(hist) : hist[i].op = op /\ hist[i].recv = c /\ Name(hist[i].cmd) = n}

\* n was deleted from c's children after call i of hist.
DeletedAfter(c, n, i) ==
  \E j \in (i + 1)..Len(hist) :
     hist[j].op = "DeleteCmd" /\ hist[j].recv = c /\ hist[j].name = n

----------------------------------------------------------------------------
\* C5: after any sequence of AddCmd, AddOptionalCmd and DeleteCmd calls, the
\* required children of a node are, for each name, the Cmd most recently
\* added under it with AddCmd and not deleted (by that exact name) since; the
\* optional children are, for each name, the Cmd most recently added with
\* AddOptionalCmd, whatever AddCmd and DeleteCmd calls were made.
ChildrenAreLastAdded ==
  \A c \in Cmds :
     /\ DOMAIN children[c] \subseteq AllNames
     /\ DOMAIN optionalChildren[c] \subseteq AllNames
     /\ \A n \in AllNames :
          LET adds == AddsOf("AddCmd", c, n)
              live == adds # {} /\ ~DeletedAfter(c, n, Max(adds))
              oadds == AddsOf("AddOptionalCmd", c, n)
          IN /\ (n \in DOMAIN children[c]) <=> live
             /\ live => children[c][n] = hist[Max(adds)].cmd
             /\ (n \in DOMAIN optionalChildren[c]) <=> (oadds # {})
             /\ oadds # {} => optionalChildren[c][n] = hist[Max(oadds)].cmd

\* C5's case: a Cmd named "user" replaced another one, and DeleteCmd("u")
\* found only a child that has "u" as an alias.
OverwrittenAndAliasKept ==
  /\ Len(hist) = 3
  /\ hist[1] = [op |-> "AddCmd", recv |-> Root, cmd |-> User2]
  /\ hist[2] = [op |-> "AddCmd", recv |-> Root, cmd |-> User]
  /\ hist[3] = [op |-> "DeleteCmd", recv |-> Root, name |-> sU]
  /\ children[Root][sUser] = User

\* C6: Children() and OptionalChildren() return each entry of the map once,
\* in strictly increasing lexicographic order of name.
ChildrenSorted ==
  call.op \in {"Children", "OptionalChildren"} =>
    LET m == IF call.op = "Children" THEN children[call.recv]
                                     ELSE optionalChildren[call.recv]
        ret == call.ret
    IN /\ Len(ret) = Cardinality(DOMAIN m)
       /\ Range(ret) = Range(m)
       /\ \A i, j \in 1..Len(ret) : i < j => LexLess(Name(ret[i]), Name(ret[j]))

\* C6's case: three children inserted in an order that is not the sorted one.
SortedAfterUnsortedInserts ==
  /\ call.op = "Children"
  /\ Len(call.ret) = 3
  /\ Len(hist) = 3
  /\ hist[1].op = "AddCmd" /\ hist[3].op = "AddCmd"
  /\ LexLess(Name(hist[3].cmd), Name(hist[1].cmd))

----------------------------------------------------------------------------
\* C1, as stated: with a required child a of the root carrying alias b, what
\* FindCmd returned for <<a>> \o X is a result of FindCmd(<<b>> \o X).
AliasSameAsName ==
  (call.op = "FindCmd" /\ Len(call.args) >= 1) =>
    \A a \in Range(children[Root]) :
       call.args[1] = Name(a) =>
         \A b \in Range(Aliases(a)) :
            FindResult \in FindCmd(Root, <<b>> \o Tail(call.args))

\* The required children of the root that carry alias b.
Carriers(b) == {c \in Range(children[Root]) : b \in Range(Aliases(c))}

\* C1, amended: when no required child of the root is named b, every result
\* of FindCmd(<<a>> \o X) is a result of FindCmd(<<b>> \o X); when moreover a
\* is the only child carrying alias b, every result of FindCmd(<<b>> \o X) is
\* a result of FindCmd(<<a>> \o X).
AliasSameAsNameUnlessShadowed ==
  (call.op = "FindCmd" /\ Len(call.args) >= 1) =>
    \A a \in Range(children[Root]) :
       \A b \in Range(Aliases(a)) :
          b \notin DOMAIN children[Root] =>
            /\ call.args[1] = Name(a) =>
                 FindResult \in FindCmd(Root, <<b>> \o Tail(call.args))
            /\ (call.args[1] = b /\ Carriers(b) = {a}) =>
                 FindResult \in FindCmd(Root, <<Name(a)>> \o Tail(call.args))

\* C1's case: "usr x" resolved through the alias of the only carrier.
AliasResolved ==
  /\ call.op = "FindCmd"
  /\ call.args = <<sUsr, sExtra>>
  /\ Carriers(sUsr) = {User}
  /\ call.cmd = User
  /\ call.remArgs = <<sExtra>>

\* C2: a second FindCmd call with the same words on the unchanged tree
\* returns what the recorded call returned.
FindCmdDeterministic ==
  call.op = "FindCmd" => \A r \in FindCmd(Root, call.args) : r = FindResult

----------------------------------------------------------------------------
\* The nodes the required scan can end in, with the index of the last matched
\* word (0 when no word matched), scanning from word i at node with last match
\* at index last.
RECURSIVE Walks(_, _, _, _)
Walks(args, i, node, last) ==
  IF i > Len(args) THEN {[node |-> node, last |-> last]}
  ELSE LET M == Matches(children[node], args[i])
       IN IF M = {} THEN Walks(args, i + 1, node, last)
          ELSE UNION {Walks(args, i + 1, c, i) : c \in M}

\* C4: the returned command is the node of the last word that matched a
\* required child (name, else alias) of the node descended to so far, words
\* that match nothing being skipped; the remaining args are the words after
\* that last matched word.
RequiredScanLastMatch ==
  call.op = "FindCmd" =>
    \E w \in Walks(call.args, 1, Root, 0) :
       IF w.last = 0
       THEN call.cmd = Nil /\ call.remArgs = <<>>
       ELSE /\ call.cmd = w.node
            /\ call.remArgs = [j \in 1..(Len(call.args) - w.last) |-> call.args[w.last + j]]

\* C4's case: a skipped word, then a match, and an optional token left in
\* the remaining args.
SkippedThenMatched ==
  /\ call.op = "FindCmd"
  /\ call.args = <<sExtra, sUser, sVerbose>>
  /\ call.cmd = User
  /\ call.remArgs = <<sVerbose>>
  /\ Verbose \in DOMAIN call.optCmdMap

----------------------------------------------------------------------------
\* What the words of rem from j on can resolve to among the optional
\* children of c: one Cmd or Nil for each word.
RECURSIVE OptResolutions(_, _, _)
OptResolutions(c, rem, j) ==
  IF j > Len(rem) THEN {<<>>}
  ELSE LET M == Matches(optionalChildren[c], rem[j])
       IN {<<x>> \o t : x \in (IF M = {} THEN {Nil} ELSE M),
                        t \in OptResolutions(c, rem, j + 1)}

\* The value of optional command o under resolution r of rem: the last word
\* that resolves to nothing between o's last occurrence and the next optional
\* token (or the end), "" when there is none.
CapturedValue(r, rem, o) ==
  LET i == Max({j \in 1..Len(r) : r[j] = o})
      later == {k \in (i + 1)..Len(r) : r[k] # Nil}
      stop == IF later = {} THEN Len(r) + 1 ELSE Min(later)
  IN IF stop = i + 1 THEN sEmpty ELSE rem[stop - 1]

----------------------------------------------------------------------------
\* No word of the recorded call matches a required child of the root.
NoRequiredMatch == \A i \in 1..Len(call.args) : Matches(children[Root], call.args[i]) = {}

\* C10, as stated: when no word matches a required child, an optional child
\* of the root whose name or alias occurs is a key of the returned map.
RootOptionalsCaptured ==
  (call.op = "FindCmd" /\ NoRequiredMatch) =>
    \A o \in Range(optionalChildren[Root]) :
       (\E i \in 1..Len(call.args) : o \in Matches(optionalChildren[Root], call.args[i]))
         => o \in DOMAIN call.optCmdMap

\* C10, amended: when no word matches a required child, FindCmd returns no
\* command, no remaining args and an empty optional map, whatever optional
\* children the root has.
NoMatchNothingCaptured ==
  (call.op = "FindCmd" /\ NoRequiredMatch) =>
    /\ call.cmd = Nil
    /\ call.remArgs = <<>>
    /\ call.optCmdMap = EmptyMap

\* C10's case: a word names an optional child of the root and nothing else
\* matches.
RootOptionalIgnored ==
  /\ call.op = "FindCmd"
  /\ NoRequiredMatch
  /\ call.args = <<sVerbose, sExtra>>
  /\ Verbose \in Range(optionalChildren[Root])
  /\ call.optCmdMap = EmptyMap

----------------------------------------------------------------------------
\* The recorded call is a Do call that got as far as filtering.
Filtering == call.op = "Do" /\ ~call.disabled

\* w is p followed by something.
StartsWith(w, p) == \E k \in 0..Len(w) : p = SubSeq(w, 1, k)

\* The candidates of the recorded call that start with its prefix, in order.
Survivors == SelectSeq(call.cWords, LAMBDA w : StartsWith(w, call.prefix))

\* The prefix is itself the only surviving candidate.
ExactUniqueMatch == call.prefix # sEmpty /\ Survivors = <<call.prefix>>

\* C7, as stated: the returned suggestions are the candidates that start with
\* the prefix, each with the prefix removed, and the returned length is the
\* length of the prefix.
SuggestionsAreTrimmedSurvivors ==
  Filtering =>
    /\ Len(call.suggestions) = Len(Survivors)
    /\ \A i \in 1..Len(Survivors) : Survivors[i] = call.prefix \o call.suggestions[i]
    /\ call.length = Len(call.prefix)

\* C7, amended: the same, except that when the prefix is non-empty and is
\* itself the only surviving candidate the one suggestion returned is " ".
SuggestionsAreTrimmedSurvivorsOrSpace ==
  Filtering =>
    /\ Len(call.suggestions) = Len(Survivors)
    /\ \A i \in 1..Len(Survivors) :
          \/ Survivors[i] = call.prefix \o call.suggestions[i]
          \/ ExactUniqueMatch /\ call.suggestions[i] = sSpace
    /\ ExactUniqueMatch => call.suggestions # <<sEmpty>>
    /\ call.length = Len(call.prefix)

\* C7's case: prefix "st" against status, stop, user, start.
StFiltered ==
  /\ Filtering
  /\ call.prefix = sSt
  /\ call.cWords = <<sStatus, sStop, sUser, sStart>>
  /\ call.suggestions = << <<97, 116, 117, 115>>, <<111, 112>>, <<97, 114, 116>> >>
  /\ call.length = 2

\* C8: a single surviving candidate equal to a non-empty prefix is returned
\* as the one suggestion " "; in every other case the suggestions are the
\* surviving candidates without the prefix, unchanged.
ExactUniqueMatchCollapses ==
  Filtering =>
    IF Len(Survivors) = 1 /\ call.prefix # sEmpty /\ Survivors[1] = call.prefix
    THEN call.suggestions = <<sSpace>>
    ELSE call.suggestions =
           [i \in 1..Len(Survivors) |->
              SubSeq(Survivors[i], Len(call.prefix) + 1, Len(Survivors[i]))]

\* C8's case: prefix "status" against the one candidate "status".
StatusCollapsed ==
  /\ Filtering
  /\ call.prefix = sStatus
  /\ call.cWords = <<sStatus>>
  /\ call.suggestions = <<sSpace>>

----------------------------------------------------------------------------
\* The effective command of the recorded Do call and its arguments.
Effective == IF call.found.cmd = Nil THEN Root ELSE call.found.cmd
EffectiveArgs == IF call.found.cmd = Nil THEN call.w ELSE call.found.remArgs

\* The names of the required and of the optional children of c.
ChildNames(c) == (DOMAIN children[c]) \cup (DOMAIN optionalChildren[c])

\* C9, as stated: the candidates come from the effective command's
\* CompleterWithPrefix, called with (prefix, args), if set; else from its
\* Completer, called with (args), if set; else they are the names of its
\* children and optional children; and no other completer is consulted.
EffectiveCommandIsOnlySource ==
  Filtering =>
    IF HasCompleterWithPrefix(Effective)
    THEN /\ call.cWords = CompleterWithPrefixOut(Effective)
         /\ call.calls = <<CompleterWithPrefixCall(Effective, call.prefix, EffectiveArgs)>>
    ELSE IF HasCompleter(Effective)
    THEN /\ call.cWords = CompleterOut(Effective)
         /\ call.calls = <<CompleterCall(Effective, EffectiveArgs)>>
    ELSE /\ Range(call.cWords) = ChildNames(Effective)
         /\ call.calls = <<>>

\* Optional command o was captured with a value its Completer lists.
CapturedValid(o) ==
  HasCompleter(o) /\ call.found.optCmdMap[o] \in Range(CompleterOut(o))

\* Optional command o has nothing to complete with.
NoSourceOfItsOwn(o) ==
  ~HasCompleterWithPrefix(o) /\ ~HasCompleter(o) /\ DOMAIN children[o] = {}

\* The completer calls IsValid makes for the captured optional commands.
ValidationCalls == {CompleterCall(o, <<>>) : o \in DOMAIN call.found.optCmdMap}

\* C9, amended: provided every optional command FindCmd captured has a valid
\* value or has neither a completer nor required children, the candidates
\* come from the effective command's CompleterWithPrefix, called last with
\* (prefix, args), if set; else from its Completer, called last with (args),
\* if set; else they are the names of its children and optional children;
\* the only other completer calls are those IsValid makes for the captured
\* optional commands.
EffectiveCommandIsSourceAfterOptionals ==
  (Filtering /\ \A o \in DOMAIN call.found.optCmdMap : CapturedValid(o) \/ NoSourceOfItsOwn(o)) =>
    LET n == Len(call.calls)
    IN IF HasCompleterWithPrefix(Effective)
       THEN /\ call.cWords = CompleterWithPrefixOut(Effective)
            /\ n >= 1
            /\ call.calls[n] = CompleterWithPrefixCall(Effective, call.prefix, EffectiveArgs)
            /\ \A i \in 1..(n - 1) : call.calls[i] \in ValidationCalls
       ELSE IF HasCompleter(Effective)
       THEN /\ call.cWords = CompleterOut(Effective)
            /\ n >= 1
            /\ call.calls[n] = CompleterCall(Effective, EffectiveArgs)
            /\ \A i \in 1..(n - 1) : call.calls[i] \in ValidationCalls
       ELSE /\ Range(call.cWords) = ChildNames(Effective)
            /\ \A i \in 1..n : call.calls[i] \in ValidationCalls

\* C9's case: the effective command has both completers, and an optional
\* command was captured with a valid value.
PrefixCompleterWins ==
  /\ Filtering
  /\ call.found.cmd = User
  /\ Mode \in DOMAIN call.found.optCmdMap
  /\ CapturedValid(Mode)
  /\ Len(call.calls) = 2
  /\ call.cWords = <<sStatus>>

====
